---------------------------- MODULE Spec2Model ----------------------------
(***************************************************************************)
(* A model of generate_graphs.py: the script that finds the newest         *)
(* ~/Downloads/eksport*.csv, parses it, fits a trend line, selects the     *)
(* three largest transactions, annotates them, shows the chart and saves   *)
(* balance.png.                                                            *)
(*                                                                         *)
(* Text is modelled as a sequence of one-character strings, so that the    *)
(* replace / parse conversions are computed character by character.  A     *)
(* parsed number is an exact decimal [m, e] standing for m / 10^e; for the *)
(* short literals of the model two literals denote the same decimal        *)
(* exactly when Python's float() gives them the same double.               *)
(***************************************************************************)
EXTENDS Integers, Sequences, FiniteSets

(***************************************************************************)
(* Bounds of the model.                                                    *)
(***************************************************************************)
MaxStrLen == 5      \* longest enumerated numeric field (SpecNum)
MaxRows == 3        \* most rows of an enumerated file (Spec)
MaxTime == 3        \* creation times range over 1..MaxTime (Spec)
MaxTx == 3          \* longest enumerated amount list (SpecSel)

(***************************************************************************)
(* Text helpers.                                                           *)
(***************************************************************************)
Digits == {"0", "1", "2", "3", "4", "5", "6", "7", "8", "9"}

DigitVal(c) ==
    CASE c = "0" -> 0 [] c = "1" -> 1 [] c = "2" -> 2 [] c = "3" -> 3
      [] c = "4" -> 4 [] c = "5" -> 5 [] c = "6" -> 6 [] c = "7" -> 7
      [] c = "8" -> 8 [] c = "9" -> 9

Pow10(k) == IF k = 0 THEN 1 ELSE
    LET P[i \in 0..k] == IF i = 0 THEN 1 ELSE 10 * P[i - 1] IN P[k]

AllDigits(s) == \A i \in 1..Len(s) : s[i] \in Digits

\* The value of a digit string; the empty string gives 0.
DigitsVal(s) ==
    LET V[i \in 0..Len(s)] == IF i = 0 THEN 0 ELSE 10 * V[i - 1] + DigitVal(s[i])
    IN V[Len(s)]

\* Position of the first occurrence of c in s, 0 when there is none.
IndexOf(s, c) ==
    IF \E i \in 1..Len(s) : s[i] = c
    THEN CHOOSE i \in 1..Len(s) : s[i] = c /\ \A j \in 1..(i - 1) : s[j] # c
    ELSE 0

CountOf(s, c) == Cardinality({i \in 1..Len(s) : s[i] = c})

\* str.replace(c, r) for a one-character c: every occurrence of c becomes r.
RECURSIVE StrReplace(_, _, _)
StrReplace(s, c, r) ==
    IF s = <<>> THEN <<>>
    ELSE (IF Head(s) = c THEN r ELSE <<Head(s)>>) \o StrReplace(Tail(s), c, r)

(***************************************************************************)
(* Decimals: [ok, m, e] is the number m / 10^e when ok, and a ValueError   *)
(* otherwise.  Norm strips trailing zeros so that equal numbers are equal  *)
(* records.                                                                *)
(***************************************************************************)
NoValue == [ok |-> FALSE, m |-> 0, e |-> 0]

RECURSIVE Norm(_, _)
Norm(m, e) ==
    IF e > 0 /\ m % 10 = 0 THEN Norm(m \div 10, e - 1)
    ELSE [ok |-> TRUE, m |-> m, e |-> e]

\* float(t) for a literal made of a sign, digits and '.': an optional
\* sign, then digits with at most one '.', at least one digit in all.
PyFloat(t) ==
    LET neg  == Len(t) > 0 /\ t[1] = "-"
        body == IF Len(t) > 0 /\ t[1] \in {"-", "+"} THEN Tail(t) ELSE t
        dot  == IndexOf(body, ".")
        ip   == IF dot = 0 THEN body ELSE SubSeq(body, 1, dot - 1)
        fp   == IF dot = 0 THEN <<>> ELSE SubSeq(body, dot + 1, Len(body))
        mag  == DigitsVal(ip) * Pow10(Len(fp)) + DigitsVal(fp)
    IN  IF AllDigits(ip) /\ AllDigits(fp) /\ Len(ip) + Len(fp) > 0
        THEN Norm(IF neg THEN 0 - mag ELSE mag, Len(fp))
        ELSE NoValue

\* A faulty variant: the two replacements in the wrong order, so every
\* separator goes.
ParseNumberSwapped(field) ==
    PyFloat(StrReplace(StrReplace(field, ",", <<".">>), ".", <<>>))

\* float(row[k].replace(".", "").replace(",", "."))
ParseNumber(field) ==
    PyFloat(StrReplace(StrReplace(field, ".", <<>>), ",", <<".">>))


(***************************************************************************)
(* The European notation the file uses: an optional '-', an integer part   *)
(* that is either plain digits or groups of three separated by '.', and    *)
(* an optional ',' followed by decimals.  EuropeanValue is the number such *)
(* a string denotes, read group by group.                                  *)
(***************************************************************************)
LastIndexOf(s, c) ==
    IF \E i \in 1..Len(s) : s[i] = c
    THEN CHOOSE i \in 1..Len(s) : s[i] = c /\ \A j \in (i + 1)..Len(s) : s[j] # c
    ELSE 0

RECURSIVE GroupedOk(_)
GroupedOk(ip) ==
    LET d == LastIndexOf(ip, ".") IN
    IF d = 0 THEN Len(ip) \in 1..3 /\ AllDigits(ip)
    ELSE /\ Len(ip) - d = 3
         /\ AllDigits(SubSeq(ip, d + 1, Len(ip)))
         /\ GroupedOk(SubSeq(ip, 1, d - 1))

RECURSIVE GroupedVal(_)
GroupedVal(ip) ==
    LET d == LastIndexOf(ip, ".") IN
    IF d = 0 THEN DigitsVal(ip)
    ELSE GroupedVal(SubSeq(ip, 1, d - 1)) * 1000 + DigitsVal(SubSeq(ip, d + 1, Len(ip)))

EuIntPart(s) ==
    LET body == IF Len(s) > 0 /\ s[1] = "-" THEN Tail(s) ELSE s
        c    == IndexOf(body, ",")
    IN  IF c = 0 THEN body ELSE SubSeq(body, 1, c - 1)

EuFracPart(s) ==
    LET body == IF Len(s) > 0 /\ s[1] = "-" THEN Tail(s) ELSE s
        c    == IndexOf(body, ",")
    IN  IF c = 0 THEN <<>> ELSE SubSeq(body, c + 1, Len(body))

WellFormedEuropean(s) ==
    /\ CountOf(s, ",") <= 1
    /\ \/ (Len(EuIntPart(s)) > 0 /\ AllDigits(EuIntPart(s)))
       \/ GroupedOk(EuIntPart(s))
    /\ AllDigits(EuFracPart(s))
    /\ (CountOf(s, ",") = 1 => Len(EuFracPart(s)) > 0)

EuropeanValue(s) ==
    LET neg == Len(s) > 0 /\ s[1] = "-"
        mag == GroupedVal(EuIntPart(s)) * Pow10(Len(EuFracPart(s)))
               + DigitsVal(EuFracPart(s))
    IN  Norm(IF neg THEN 0 - mag ELSE mag, Len(EuFracPart(s)))

(***************************************************************************)
(* Dates.  strptime(field, "%d-%m-%Y") takes a day of one or two digits,   *)
(* a month of one or two digits and a year of four digits, separated by    *)
(* '-', and raises ValueError for anything else or for a day the month     *)
(* does not have.  date2num gives the days since 1970-01-01.               *)
(***************************************************************************)
NoDate == [ok |-> FALSE, y |-> 0, m |-> 0, d |-> 0]

IsLeap(y) == (y % 4 = 0 /\ y % 100 # 0) \/ y % 400 = 0

DaysInMonth(y, m) ==
    IF m = 2 THEN (IF IsLeap(y) THEN 29 ELSE 28)
    ELSE IF m \in {4, 6, 9, 11} THEN 30 ELSE 31

\* datetime.datetime.strptime(row[0], "%d-%m-%Y")
ParseDate(field) ==
    LET d1 == IndexOf(field, "-")
        d2 == LastIndexOf(field, "-")
        ds == SubSeq(field, 1, d1 - 1)
        ms == SubSeq(field, d1 + 1, d2 - 1)
        ys == SubSeq(field, d2 + 1, Len(field))
    IN  IF /\ CountOf(field, "-") = 2
           /\ Len(ds) \in 1..2 /\ AllDigits(ds)
           /\ Len(ms) \in 1..2 /\ AllDigits(ms)
           /\ Len(ys) = 4 /\ AllDigits(ys)
           /\ DigitsVal(ys) >= 1
           /\ DigitsVal(ms) \in 1..12
           /\ DigitsVal(ds) \in 1..DaysInMonth(DigitsVal(ys), DigitsVal(ms))
        THEN [ok |-> TRUE, y |-> DigitsVal(ys), m |-> DigitsVal(ms), d |-> DigitsVal(ds)]
        ELSE NoDate

\* mdates.date2num of a midnight datetime: whole days since the epoch.
DateNum(dt) ==
    LET y   == IF dt.m <= 2 THEN dt.y - 1 ELSE dt.y
        era == y \div 400
        yoe == y - era * 400
        mp  == IF dt.m > 2 THEN dt.m - 3 ELSE dt.m + 9
        doy == (153 * mp + 2) \div 5 + dt.d - 1
        doe == yoe * 365 + yoe \div 4 - yoe \div 100 + doy
    IN  era * 146097 + doe - 719468


(***************************************************************************)
(* Arithmetic on decimals.                                                 *)
(***************************************************************************)
MaxOf(a, b) == IF a >= b THEN a ELSE b

Scaled(v, e) == v.m * Pow10(e - v.e)

LessEq(a, b) == Scaled(a, MaxOf(a.e, b.e)) <= Scaled(b, MaxOf(a.e, b.e))

Less(a, b) == Scaled(a, MaxOf(a.e, b.e)) < Scaled(b, MaxOf(a.e, b.e))

AddInt(v, k) == Norm(v.m + k * Pow10(v.e), v.e)

FromInt(k) == [ok |-> TRUE, m |-> k, e |-> 0]

(***************************************************************************)
(* get_largest_transactions.                                               *)
(*                                                                         *)
(* np.argpartition(a, kth) returns some permutation of the indices in      *)
(* which the kth position holds the element a full sort would put there,   *)
(* everything before it is no larger and everything after it no smaller;   *)
(* the order inside the two parts is left open by numpy, so every such     *)
(* permutation is a possible result.  A kth outside the array raises       *)
(* ValueError.  Indices are 1-based here.                                  *)
(***************************************************************************)
IndexPermutations(n) ==
    {p \in [1..n -> 1..n] : \A i, j \in 1..n : p[i] = p[j] => i = j}

\* A faulty variant: a kth before the start is clipped to the start.
WrapKthClipped(size, kth) == IF kth < 0 THEN MaxOf(kth + size, 0) ELSE kth

\* The 0-based position numpy partitions around, after wrapping a negative kth.
WrapKth(size, kth) == IF kth < 0 THEN kth + size ELSE kth

KthInBounds(size, kth) == WrapKth(size, kth) >= 0 /\ WrapKth(size, kth) < size

ArgPartitions(a, kth) ==
    LET k == WrapKth(Len(a), kth) + 1 IN
    {p \in IndexPermutations(Len(a)) :
        /\ \A i \in 1..(k - 1) : LessEq(a[p[i]], a[p[k]])
        /\ \A i \in (k + 1)..Len(a) : LessEq(a[p[k]], a[p[i]])}

\* A faulty variant: the slice [:n], the front of the partition.
FirstN(s, n) ==
    IF n = 0 \/ n >= Len(s) THEN s ELSE SubSeq(s, 1, n)

\* s[-n:] : the last n elements, and the whole of s for n = 0.
LastN(s, n) ==
    IF n = 0 \/ n >= Len(s) THEN s ELSE SubSeq(s, Len(s) - n + 1, Len(s))

\* A faulty variant: ties are put before their equals, as an unstable sort may.
InsertDescUnstable(sorted, x) ==
    LET k == Cardinality({i \in 1..Len(sorted) : Less(x.amount, sorted[i].amount)})
    IN  SubSeq(sorted, 1, k) \o <<x>> \o SubSeq(sorted, k + 1, Len(sorted))

\* One step of the stable descending sort: x goes after every element whose
\* amount is at least its own.
InsertDesc(sorted, x) ==
    LET k == Cardinality({i \in 1..Len(sorted) : LessEq(x.amount, sorted[i].amount)})
    IN  SubSeq(sorted, 1, k) \o <<x>> \o SubSeq(sorted, k + 1, Len(sorted))

\* list.sort(key=lambda x: x[0], reverse=True), which is stable.
RECURSIVE SortDesc(_)
SortDesc(s) ==
    IF s = <<>> THEN <<>>
    ELSE InsertDesc(SortDesc(SubSeq(s, 1, Len(s) - 1)), s[Len(s)])

\* The tuples of the selected indices, sorted.  row is a history field (the
\* row a tuple was built from); the code's tuples do not carry it.
LargestTransactions(amts, descs, dts, tail) ==
    SortDesc([j \in 1..Len(tail) |->
        [amount |-> amts[tail[j]], description |-> descs[tail[j]],
         date |-> dts[tail[j]], row |-> tail[j]]])

(***************************************************************************)
(* The trend line.  np.polyfit(x, y, 1) raises TypeError for an empty x.   *)
(* The least-squares slope is num / (den * 10^scale) with                  *)
(*   num = n*Sum(x*y) - Sum(x)*Sum(y),  den = n*Sum(x*x) - Sum(x)^2,       *)
(* y taken in units of 10^-scale.  The slope does not change when every x  *)
(* is shifted by the same amount, so x is taken relative to x[1].  With    *)
(* den = 0 (fewer than two distinct dates) the fit is rank deficient and   *)
(* numpy only warns; its coefficients are not modelled then.               *)
(***************************************************************************)
SumTo(f, n) ==
    LET S[i \in 0..n] == IF i = 0 THEN 0 ELSE S[i - 1] + f[i] IN S[n]

MaxScale(bs) ==
    LET M[i \in 0..Len(bs)] == IF i = 0 THEN 0 ELSE MaxOf(M[i - 1], bs[i].e)
    IN  M[Len(bs)]

\* A faulty variant: the fit taken over the row position instead of the date.
PolyfitByRow(dts, bs) ==
    LET n  == Len(dts)
        sc == MaxScale(bs)
        x  == [i \in 1..n |-> i]
        y  == [i \in 1..n |-> Scaled(bs[i], sc)]
    IN  [num |-> n * SumTo([i \in 1..n |-> x[i] * y[i]], n) - SumTo(x, n) * SumTo(y, n),
         den |-> n * SumTo([i \in 1..n |-> x[i] * x[i]], n) - SumTo(x, n) * SumTo(x, n),
         scale |-> sc]

Polyfit(dts, bs) ==
    LET n  == Len(dts)
        sc == MaxScale(bs)
        x  == [i \in 1..n |-> DateNum(dts[i]) - DateNum(dts[1])]
        y  == [i \in 1..n |-> Scaled(bs[i], sc)]
    IN  [num |-> n * SumTo([i \in 1..n |-> x[i] * y[i]], n) - SumTo(x, n) * SumTo(y, n),
         den |-> n * SumTo([i \in 1..n |-> x[i] * x[i]], n) - SumTo(x, n) * SumTo(x, n),
         scale |-> sc]


(***************************************************************************)
(* Input files.  A row is the list of fields csv.reader yields for one     *)
(* line: "a;b;c;d;e;" gives six fields, the last one empty.                *)
(***************************************************************************)
\* the three rows of the format example
RowEx1 ==
    <<<<"0", "5", "-", "0", "6", "-", "2", "0", "2", "0">>, <<"T", "e", "s", "t">>, <<"1", ",", "0", "0">>, <<"1", "0", "0", ",", "0", "0">>, <<"D", "K", "K">>, <<>>>>

RowEx2 ==
    <<<<"0", "4", "-", "0", "6", "-", "2", "0", "2", "0">>, <<"T", "e", "s", "t">>, <<"1", ",", "0", "0">>, <<"9", "9", ",", "0", "0">>, <<"D", "K", "K">>, <<>>>>

RowEx3 ==
    <<<<"0", "3", "-", "0", "6", "-", "2", "0", "2", "0">>, <<"T", "e", "s", "t">>, <<"1", ",", "0", "0">>, <<"9", "8", ",", "0", "0">>, <<"D", "K", "K">>, <<>>>>

\* an expense with a thousands separator
RowRent ==
    <<<<"0", "2", "-", "0", "6", "-", "2", "0", "2", "0">>, <<"R", "e", "n", "t">>, <<"-", "1", ".", "2", "3", "4", ",", "5", "6">>, <<"0", ",", "5", "0">>, <<"D", "K", "K">>, <<>>>>

\* the amount of the example rows under another description
RowShop ==
    <<<<"0", "6", "-", "0", "6", "-", "2", "0", "2", "0">>, <<"S", "h", "o", "p">>, <<"1", ",", "0", "0">>, <<"1", "0", "1", ",", "0", "0">>, <<"D", "K", "K">>, <<>>>>

\* four fields: the currency and the trailing field are missing
RowNoCurrency ==
    <<<<"0", "7", "-", "0", "6", "-", "2", "0", "2", "0">>, <<"G", "i", "f", "t">>, <<"3", ",", "0", "0">>, <<"9", "7", ",", "0", "0">>>>

\* three fields
RowShort ==
    <<<<"0", "5", "-", "0", "6", "-", "2", "0", "2", "0">>, <<"T", "e", "s", "t">>, <<"1", ",", "0", "0">>>>

\* csv.reader gives [] for a blank line
RowEmpty ==
    <<>>

\* a date that is not DD-MM-YYYY
RowBadDate ==
    <<<<"2", "0", "2", "0", "-", "0", "6", "-", "0", "5">>, <<"T", "e", "s", "t">>, <<"1", ",", "0", "0">>, <<"1", "0", "0", ",", "0", "0">>, <<"D", "K", "K">>, <<>>>>

\* an amount that is no number
RowBadAmount ==
    <<<<"0", "5", "-", "0", "6", "-", "2", "0", "2", "0">>, <<"T", "e", "s", "t">>, <<"a", "b", "c">>, <<"1", "0", "0", ",", "0", "0">>, <<"D", "K", "K">>, <<>>>>

\* an empty balance
RowBadBalance ==
    <<<<"0", "5", "-", "0", "6", "-", "2", "0", "2", "0">>, <<"T", "e", "s", "t">>, <<"1", ",", "0", "0">>, <<>>, <<"D", "K", "K">>, <<>>>>

\* The rows the enumerated files are made of.
RowPool ==
    {RowEx1, RowShop, RowRent, RowNoCurrency,
     RowShort, RowEmpty, RowBadDate, RowBadAmount, RowBadBalance}

\* The file of the source's header comment, newest row first.
ExampleFile == <<RowEx1, RowEx2, RowEx3>>

FilesUpTo(n) == UNION {[1..k -> RowPool] : k \in 0..n}

(***************************************************************************)
(* The Downloads folder: a function from the names present to their        *)
(* creation times.  What a name is (a regular file matching the pattern,   *)
(* a directory matching it, a file that does not match) goes with the      *)
(* name.                                                                   *)
(***************************************************************************)
FileNames == {"eksport.csv", "eksport (1).csv", "eksport (2).csv"}

DirNames == {"eksport_old.csv"}

OtherNames == {"notes.csv"}

AllNames == FileNames \cup DirNames \cup OtherNames

\* The folders of the model.  The creation time of a name that does not
\* match is never read (getctime is the key of max over the matches only),
\* so it is left at 1.
Folders ==
    {f \in UNION {[S -> 1..MaxTime] : S \in SUBSET AllNames} :
        \A n \in DOMAIN f \cap OtherNames : f[n] = 1}

\* fnmatch(name, "eksport*.csv")
GlobMatch(name) == name \in FileNames \cup DirNames

\* os.path.isfile(path)
IsFile(folder, path) == path \in DOMAIN folder /\ path \in FileNames \cup OtherNames

SeqsOfSet(S) ==
    {q \in [1..Cardinality(S) -> S] : \A i, j \in 1..Cardinality(S) : q[i] = q[j] => i = j}

\* A faulty variant: the oldest file instead of the newest.
MinByCtime(folder, paths) ==
    LET B[i \in 1..Len(paths)] ==
            IF i = 1 THEN paths[1]
            ELSE IF folder[paths[i]] < folder[B[i - 1]] THEN paths[i] ELSE B[i - 1]
    IN  B[Len(paths)]

\* max(paths, key=os.path.getctime): the first of the largest, in iteration order.
MaxByCtime(folder, paths) ==
    LET B[i \in 1..Len(paths)] ==
            IF i = 1 THEN paths[1]
            ELSE IF folder[paths[i]] > folder[B[i - 1]] THEN paths[i] ELSE B[i - 1]
    IN  B[Len(paths)]

(***************************************************************************)
(* Parsing the rows (lines 53-66).  The four comprehensions run one after  *)
(* the other over all rows; the first field that is missing (IndexError)   *)
(* or does not parse (ValueError) ends the run.                            *)
(***************************************************************************)
\* float(row[2].replace(".", "").replace(",", "."))
RowAmount(row) == ParseNumber(row[3])

\* float(row[3].replace(".", "").replace(",", "."))
RowBalance(row) == ParseNumber(row[4])

RowDateError(row) ==
    IF Len(row) < 1 THEN "IndexError"
    ELSE IF ~ParseDate(row[1]).ok THEN "ValueError" ELSE ""

RowAmountError(row) ==
    IF Len(row) < 3 THEN "IndexError"
    ELSE IF ~RowAmount(row).ok THEN "ValueError" ELSE ""

\* A faulty variant: a balance that does not parse is let through.
RowBalanceErrorLenient(row) == IF Len(row) < 4 THEN "IndexError" ELSE ""

RowBalanceError(row) ==
    IF Len(row) < 4 THEN "IndexError"
    ELSE IF ~RowBalance(row).ok THEN "ValueError" ELSE ""

RowDescriptionError(row) == IF Len(row) < 2 THEN "IndexError" ELSE ""

FirstError(errs) ==
    IF \E i \in 1..Len(errs) : errs[i] # ""
    THEN errs[CHOOSE i \in 1..Len(errs) :
                 errs[i] # "" /\ \A j \in 1..(i - 1) : errs[j] = ""]
    ELSE ""

ParseError(rows) ==
    FirstError([i \in 1..Len(rows) |-> RowDateError(rows[i])]
               \o [i \in 1..Len(rows) |-> RowAmountError(rows[i])]
               \o [i \in 1..Len(rows) |-> RowBalanceError(rows[i])]
               \o [i \in 1..Len(rows) |-> RowDescriptionError(rows[i])])

\* A faulty variant: the rows are read back to front.
ParsedDatesReversed(rows) ==
    [i \in 1..Len(rows) |-> ParseDate(rows[Len(rows) + 1 - i][1])]

ParsedDates(rows) == [i \in 1..Len(rows) |-> ParseDate(rows[i][1])]

ParsedAmounts(rows) == [i \in 1..Len(rows) |-> RowAmount(rows[i])]

ParsedBalances(rows) == [i \in 1..Len(rows) |-> RowBalance(rows[i])]

ParsedDescriptions(rows) == [i \in 1..Len(rows) |-> rows[i][2]]

\* list.index(v): the first position holding a value equal to v.
ListIndex(s, v) ==
    CHOOSE i \in 1..Len(s) : s[i] = v /\ \A j \in 1..(i - 1) : s[j] # v

\* The annotations of lines 99-118, one per selected transaction.
Annotations(largest, amts, dts, bals) ==
    [k \in 1..Len(largest) |->
        LET index == ListIndex(amts, largest[k].amount) IN
        [text   |-> largest[k].description,
         xy     |-> <<dts[index], bals[index]>>,
         xytext |-> <<dts[index], AddInt(bals[index], 10)>>]]


(***************************************************************************)
(* State.                                                                  *)
(***************************************************************************)
VARIABLES
    downloads,            \* the Downloads folder: name -> creation time
    content,              \* the rows of the file the run will open
    pc,                   \* where the script is
    matches,              \* what glob.iglob still has to yield
    latest_file,          \* the path max() chose, "" before
    transactions,         \* list(reader)
    dates, amounts, balances, descriptions,
    lines,                \* the line styles plotted so far
    trend,                \* the polyfit result
    indices,              \* the tail of argpartition
    largest_transactions,
    annotations,
    stdout,               \* what print() wrote
    exitcode,             \* -1 while running
    error,                \* the exception that ended the run, "" if none
    displayed,            \* plt.show() was reached
    saved,                \* balance.png was written
    selArgs, selRet,      \* a direct call of get_largest_transactions
    numArg, numRet        \* one numeric field and its parsed value

vars == <<downloads, content, pc, matches, latest_file, transactions, dates,
          amounts, balances, descriptions, lines, trend, indices,
          largest_transactions, annotations, stdout, exitcode, error,
          displayed, saved, selArgs, selRet, numArg, numRet>>

runVars == <<downloads, content, pc, matches, latest_file, transactions, dates,
             amounts, balances, descriptions, lines, trend, indices,
             largest_transactions, annotations, stdout, exitcode, error,
             displayed, saved>>

NoTrend == [num |-> 0, den |-> 0, scale |-> 0]

NoCall == [state |-> "none", value |-> <<>>]

\* amount_of_transactions_to_extract=3, the default generate_graphs relies on.
DefaultCount == 3

\* The state of the script before its first statement.
RunStart ==
    /\ pc = "glob"
    /\ matches = <<>>
    /\ latest_file = ""
    /\ transactions = <<>>
    /\ dates = <<>> /\ amounts = <<>> /\ balances = <<>> /\ descriptions = <<>>
    /\ lines = <<>>
    /\ trend = NoTrend
    /\ indices = <<>>
    /\ largest_transactions = <<>>
    /\ annotations = <<>>
    /\ stdout = <<>>
    /\ exitcode = -1
    /\ error = ""
    /\ displayed = FALSE
    /\ saved = FALSE

\* Either the folder varies and the file is the example of the header
\* comment, or the folder holds one export and its rows vary.
Init ==
    /\ RunStart
    /\ \/ downloads \in Folders /\ content = ExampleFile
       \/ downloads = [n \in {"eksport.csv"} |-> 1] /\ content \in FilesUpTo(MaxRows)
    /\ selArgs = NoCall /\ selRet = NoCall
    /\ numArg = <<>> /\ numRet = NoCall

\* An unhandled exception: the traceback goes to stderr, the exit code is 1.
Raise(e) ==
    /\ pc' = "crashed"
    /\ error' = e
    /\ exitcode' = 1

(***************************************************************************)
(* __main__ (lines 132-143).                                               *)
(***************************************************************************)
\* glob.iglob(...): the matching names, in whatever order the folder yields them.
Glob ==
    /\ pc = "glob"
    /\ \E order \in SeqsOfSet({n \in DOMAIN downloads : GlobMatch(n)}) :
           matches' = order
    /\ pc' = "max"
    /\ UNCHANGED <<downloads, content, latest_file, transactions, dates, amounts,
                   balances, descriptions, lines, trend, indices,
                   largest_transactions, annotations, stdout, exitcode, error,
                   displayed, saved, selArgs, selRet, numArg, numRet>>

\* max(..., key=os.path.getctime): ValueError when nothing matched.
SelectLatest ==
    /\ pc = "max"
    /\ IF matches = <<>>
       THEN Raise("ValueError") /\ UNCHANGED latest_file
       ELSE /\ latest_file' = MaxByCtime(downloads, matches)
            /\ pc' = "check"
            /\ UNCHANGED <<error, exitcode>>
    /\ matches' = <<>>
    /\ UNCHANGED <<downloads, content, transactions, dates, amounts,
                   balances, descriptions, lines, trend, indices,
                   largest_transactions, annotations, stdout,
                   displayed, saved, selArgs, selRet, numArg, numRet>>

\* The chosen file is removed by someone else before the script gets to it.
FileRemoved ==
    /\ pc \in {"check", "open"}
    /\ latest_file \in DOMAIN downloads
    /\ downloads' = [n \in DOMAIN downloads \ {latest_file} |-> downloads[n]]
    /\ UNCHANGED <<content, pc, matches, latest_file, transactions, dates, amounts,
                   balances, descriptions, lines, trend, indices,
                   largest_transactions, annotations, stdout, exitcode, error,
                   displayed, saved, selArgs, selRet, numArg, numRet>>

\* if not os.path.isfile(latest_file): print(...); sys.exit(1)
CheckExists ==
    /\ pc = "check"
    /\ IF ~IsFile(downloads, latest_file)
       THEN /\ stdout' = Append(stdout, "The file does not exist")
            /\ exitcode' = 1
            /\ pc' = "exited"
       ELSE /\ pc' = "open"
            /\ UNCHANGED <<stdout, exitcode>>
    /\ UNCHANGED <<downloads, content, matches, latest_file, transactions, dates,
                   amounts, balances, descriptions, lines, trend, indices,
                   largest_transactions, annotations, error,
                   displayed, saved, selArgs, selRet, numArg, numRet>>

(***************************************************************************)
(* generate_graphs (lines 45-129).                                         *)
(***************************************************************************)
\* Lines 48-66: open the file, read every row, build the four lists.
OpenAndParse ==
    /\ pc = "open"
    /\ IF ~IsFile(downloads, latest_file)
       THEN /\ Raise("FileNotFoundError")
            /\ UNCHANGED <<transactions, dates, amounts, balances, descriptions>>
       ELSE /\ transactions' = content
            /\ IF ParseError(content) # ""
               THEN /\ Raise(ParseError(content))
                    /\ UNCHANGED <<dates, amounts, balances, descriptions>>
               ELSE /\ dates' = ParsedDates(content)
                    /\ amounts' = ParsedAmounts(content)
                    /\ balances' = ParsedBalances(content)
                    /\ descriptions' = ParsedDescriptions(content)
                    /\ pc' = "plot"
                    /\ UNCHANGED <<error, exitcode>>
    /\ UNCHANGED <<downloads, content, matches, latest_file, lines, trend, indices,
                   largest_transactions, annotations, stdout,
                   displayed, saved, selArgs, selRet, numArg, numRet>>

\* Lines 69-87: the balance line and the axes.
PlotBalance ==
    /\ pc = "plot"
    /\ lines' = Append(lines, "b-")
    /\ pc' = "fit"
    /\ UNCHANGED <<downloads, content, matches, latest_file, transactions, dates,
                   amounts, balances, descriptions, trend, indices,
                   largest_transactions, annotations, stdout, exitcode, error,
                   displayed, saved, selArgs, selRet, numArg, numRet>>

\* Lines 90-95: the trend line; np.polyfit raises TypeError on empty input.
FitTrend ==
    /\ pc = "fit"
    /\ IF dates = <<>>
       THEN Raise("TypeError") /\ UNCHANGED <<trend, lines>>
       ELSE /\ trend' = Polyfit(dates, balances)
            /\ lines' = Append(lines, "r--")
            /\ pc' = "select"
            /\ UNCHANGED <<error, exitcode>>
    /\ UNCHANGED <<downloads, content, matches, latest_file, transactions, dates,
                   amounts, balances, descriptions, indices,
                   largest_transactions, annotations, stdout,
                   displayed, saved, selArgs, selRet, numArg, numRet>>

\* Line 98: get_largest_transactions(amounts, descriptions, dates).
SelectLargest ==
    /\ pc = "select"
    /\ IF ~KthInBounds(Len(amounts), 0 - DefaultCount)
       THEN Raise("ValueError") /\ UNCHANGED <<indices, largest_transactions>>
       ELSE /\ \E p \in ArgPartitions(amounts, 0 - DefaultCount) :
                 /\ indices' = LastN(p, DefaultCount)
                 /\ largest_transactions' =
                        LargestTransactions(amounts, descriptions, dates,
                                            LastN(p, DefaultCount))
            /\ pc' = "annotate"
            /\ UNCHANGED <<error, exitcode>>
    /\ UNCHANGED <<downloads, content, matches, latest_file, transactions, dates,
                   amounts, balances, descriptions, lines, trend,
                   annotations, stdout,
                   displayed, saved, selArgs, selRet, numArg, numRet>>

\* Lines 99-118: one annotation per selected transaction.
Annotate ==
    /\ pc = "annotate"
    /\ annotations' = Annotations(largest_transactions, amounts, dates, balances)
    /\ pc' = "maximize"
    /\ UNCHANGED <<downloads, content, matches, latest_file, transactions, dates,
                   amounts, balances, descriptions, lines, trend, indices,
                   largest_transactions, stdout, exitcode, error,
                   displayed, saved, selArgs, selRet, numArg, numRet>>

\* Lines 121-124: window.showMaximized() exists on Qt windows only; on
\* another backend the attribute lookup raises AttributeError.
Maximize ==
    /\ pc = "maximize"
    /\ \/ pc' = "show" /\ UNCHANGED <<error, exitcode>>
       \/ Raise("AttributeError")
    /\ UNCHANGED <<downloads, content, matches, latest_file, transactions, dates,
                   amounts, balances, descriptions, lines, trend, indices,
                   largest_transactions, annotations, stdout,
                   displayed, saved, selArgs, selRet, numArg, numRet>>

\* Line 126: plt.show()
Show ==
    /\ pc = "show"
    /\ displayed' = TRUE
    /\ pc' = "save"
    /\ UNCHANGED <<downloads, content, matches, latest_file, transactions, dates,
                   amounts, balances, descriptions, lines, trend, indices,
                   largest_transactions, annotations, stdout, exitcode, error,
                   saved, selArgs, selRet, numArg, numRet>>

\* Line 129: fig.savefig("balance.png"), then the script ends.
Save ==
    /\ pc = "save"
    /\ saved' = TRUE
    /\ exitcode' = 0
    /\ pc' = "done"
    /\ UNCHANGED <<downloads, content, matches, latest_file, transactions, dates,
                   amounts, balances, descriptions, lines, trend, indices,
                   largest_transactions, annotations, stdout, error,
                   displayed, selArgs, selRet, numArg, numRet>>

Next ==
    \/ Glob
    \/ SelectLatest
    \/ FileRemoved
    \/ CheckExists
    \/ OpenAndParse
    \/ PlotBalance
    \/ FitTrend
    \/ SelectLargest
    \/ Annotate
    \/ Maximize
    \/ Show
    \/ Save

Spec == Init /\ [][Next]_vars


(***************************************************************************)
(* get_largest_transactions called on its own, for any list of amounts     *)
(* and any count.                                                          *)
(***************************************************************************)
Labels == << <<"A">>, <<"B">>, <<"C">>, <<"D">>, <<"E">>, <<"F">> >>

JuneDay(i) == [ok |-> TRUE, y |-> 2020, m |-> 6, d |-> i]

SelValues == {FromInt(v) : v \in -2..2}

\* The two lists of the specification's examples.
SelExamples ==
    { <<FromInt(5), FromInt(-3), FromInt(12), FromInt(7)>>,
      <<FromInt(-10), FromInt(-20), FromInt(-5)>> }

SelAmounts == UNION {[1..k -> SelValues] : k \in 0..MaxTx} \cup SelExamples

\* The script is not running: the run's variables rest.
RunIdle ==
    /\ pc = "idle"
    /\ downloads = <<>> /\ content = <<>>
    /\ matches = <<>>
    /\ latest_file = ""
    /\ transactions = <<>>
    /\ dates = <<>> /\ amounts = <<>> /\ balances = <<>> /\ descriptions = <<>>
    /\ lines = <<>>
    /\ trend = NoTrend
    /\ indices = <<>>
    /\ largest_transactions = <<>>
    /\ annotations = <<>>
    /\ stdout = <<>>
    /\ exitcode = -1
    /\ error = ""
    /\ displayed = FALSE
    /\ saved = FALSE

InitSel ==
    /\ RunIdle
    /\ \E a \in SelAmounts, n \in 0..(MaxTx + 1) :
           selArgs = [amounts      |-> a,
                      descriptions |-> SubSeq(Labels, 1, Len(a)),
                      dates        |-> [i \in 1..Len(a) |-> JuneDay(i)],
                      n            |-> n]
    /\ selRet = [state |-> "pending", indices |-> <<>>, value |-> <<>>]
    /\ numArg = <<>> /\ numRet = NoCall

\* Lines 27-42, with amount_of_transactions_to_extract = selArgs.n.
GetLargestTransactions ==
    /\ selRet.state = "pending"
    /\ IF ~KthInBounds(Len(selArgs.amounts), 0 - selArgs.n)
       THEN selRet' = [state |-> "raised", indices |-> <<>>, value |-> <<>>]
       ELSE \E p \in ArgPartitions(selArgs.amounts, 0 - selArgs.n) :
                selRet' = [state   |-> "returned",
                           indices |-> LastN(p, selArgs.n),
                           value   |-> LargestTransactions(
                                           selArgs.amounts, selArgs.descriptions,
                                           selArgs.dates, LastN(p, selArgs.n))]
    /\ UNCHANGED <<runVars, selArgs, numArg, numRet>>

NextSel == GetLargestTransactions

SpecSel == InitSel /\ [][NextSel]_vars

(***************************************************************************)
(* The numeric fields of one row parsed on their own, for every short      *)
(* string over the characters a number can be written with.                *)
(***************************************************************************)
NumAlphabet == {"0", "1", "5", ".", ",", "-"}

\* The two strings of the specification's examples: "1.234,56" and "0,50".
NumExamples ==
    { <<"1", ".", "2", "3", "4", ",", "5", "6">>, <<"0", ",", "5", "0">> }

NumStrings == UNION {[1..k -> NumAlphabet] : k \in 0..MaxStrLen} \cup NumExamples

\* The string sits in the amount column or in the balance column of a row.
InitNum ==
    /\ RunIdle
    /\ \E t \in NumStrings :
           \/ numArg = <<RowEx1[1], RowEx1[2], t, <<"0">> >>
           \/ numArg = <<RowEx1[1], RowEx1[2], <<"0">>, t>>
    /\ numRet = [state |-> "pending", amount |-> NoValue, balance |-> NoValue]
    /\ selArgs = NoCall /\ selRet = NoCall

\* Lines 56-63 for one row.
ParseNumericFields ==
    /\ numRet.state = "pending"
    /\ numRet' = [state   |-> IF RowAmount(numArg).ok /\ RowBalance(numArg).ok
                              THEN "parsed" ELSE "raised",
                  amount  |-> RowAmount(numArg),
                  balance |-> RowBalance(numArg)]
    /\ UNCHANGED <<runVars, selArgs, selRet, numArg>>

NextNum == ParseNumericFields

SpecNum == InitNum /\ [][NextNum]_vars


(***************************************************************************)
(* Properties.                                                             *)
(***************************************************************************)
AmountsOf(txs) == [k \in 1..Len(txs) |-> txs[k].amount]

RowsOf(txs) == {txs[k].row : k \in 1..Len(txs)}

PositionIn(s, v) == CHOOSE i \in 1..Len(s) : s[i] = v

\* C1: for 1 <= N <= len(amounts), get_largest_transactions returns exactly
\* N transactions, each one a row of the input, no row twice, no row left
\* out that has a larger amount than a returned one, in descending order of
\* the signed amount; [5, -3, 12, 7] with N = 2 gives [12, 7] and
\* [-10, -20, -5] with N = 1 gives [-5].
C1_TopNDescending ==
    (selRet.state # "pending" /\ selArgs.n \in 1..Len(selArgs.amounts)) =>
        /\ selRet.state = "returned"
        /\ Len(selRet.value) = selArgs.n
        /\ Cardinality(RowsOf(selRet.value)) = selArgs.n
        /\ \A k \in 1..Len(selRet.value) :
               /\ selRet.value[k].row \in 1..Len(selArgs.amounts)
               /\ selRet.value[k].amount = selArgs.amounts[selRet.value[k].row]
               /\ selRet.value[k].description = selArgs.descriptions[selRet.value[k].row]
               /\ selRet.value[k].date = selArgs.dates[selRet.value[k].row]
        /\ \A k \in 1..(Len(selRet.value) - 1) :
               LessEq(selRet.value[k + 1].amount, selRet.value[k].amount)
        /\ \A r \in RowsOf(selRet.value) :
               \A q \in (1..Len(selArgs.amounts)) \ RowsOf(selRet.value) :
                   LessEq(selArgs.amounts[q], selArgs.amounts[r])
        /\ (selArgs.amounts = <<FromInt(5), FromInt(-3), FromInt(12), FromInt(7)>>
              /\ selArgs.n = 2)
           => AmountsOf(selRet.value) = <<FromInt(12), FromInt(7)>>
        /\ (selArgs.amounts = <<FromInt(-10), FromInt(-20), FromInt(-5)>>
              /\ selArgs.n = 1)
           => AmountsOf(selRet.value) = <<FromInt(-5)>>

\* C1 witness: the call on [5, -3, 12, 7] with N = 2 has returned [12, 7].
C1_Witness ==
    /\ selRet.state = "returned"
    /\ selArgs.amounts = <<FromInt(5), FromInt(-3), FromInt(12), FromInt(7)>>
    /\ selArgs.n = 2
    /\ AmountsOf(selRet.value) = <<FromInt(12), FromInt(7)>>

\* Whether no file of the folder matches the pattern.
NoFileMatches == {n \in DOMAIN downloads : GlobMatch(n)} = {}

\* C2: when no file matches eksport*.csv, or the chosen path is no existing
\* file at the check, the run ends having printed "The file does not
\* exist", with exit code 1, with nothing parsed, shown or saved.
C2_NoFileGivesMessage ==
    /\ (pc \in {"exited", "crashed", "done"} /\ latest_file = "" /\ NoFileMatches)
       => /\ pc = "exited"
          /\ stdout = <<"The file does not exist">>
          /\ exitcode = 1
          /\ transactions = <<>> /\ dates = <<>>
          /\ ~displayed /\ ~saved
    /\ pc = "exited"
       => /\ stdout = <<"The file does not exist">>
          /\ exitcode = 1
          /\ transactions = <<>> /\ dates = <<>>
          /\ ~displayed /\ ~saved

\* Whether a row has the documented layout: five fields, and the empty one
\* after the closing ';' when the line ends with it.
RowLayoutOk(row) == Len(row) \in {5, 6}

RowUnparsable(row) ==
    \/ (Len(row) >= 1 /\ ~ParseDate(row[1]).ok)
    \/ (Len(row) >= 3
          /\ ~PyFloat(StrReplace(StrReplace(row[3], ".", <<>>), ",", <<".">>)).ok)
    \/ (Len(row) >= 4
          /\ ~PyFloat(StrReplace(StrReplace(row[4], ".", <<>>), ",", <<".">>)).ok)

\* C3 as stated: a row with the wrong field count or an unparsable date,
\* amount or balance aborts the run: no chart is shown and balance.png is
\* not written.
C3_AnyMalformedRowAborts ==
    (\E i \in 1..Len(content) : ~RowLayoutOk(content[i]) \/ RowUnparsable(content[i]))
    => ~displayed /\ ~saved

\* C3 as amended: a row with fewer than four fields or an unparsable date,
\* amount or balance aborts the run before anything is parsed, plotted,
\* shown or saved, and the run can only end in an error or, when the file is
\* gone, in the not-found exit.
C3_FatalRowAborts ==
    \/ /\ ~displayed /\ ~saved
       /\ dates = <<>> /\ amounts = <<>> /\ balances = <<>> /\ descriptions = <<>>
       /\ lines = <<>> /\ annotations = <<>>
       /\ pc \in {"glob", "max", "check", "open", "exited", "crashed"}
       /\ (pc = "crashed" =>
              error \in {"IndexError", "ValueError", "FileNotFoundError"})
    \/ ~(\E i \in 1..Len(content) : Len(content[i]) < 4 \/ RowUnparsable(content[i]))

\* C3 witness: files that were opened and ended the run in the parser, one
\* by a short row, one by a field that does not parse.
C3_Witness ==
    /\ pc = "crashed"
    /\ transactions = content
    /\ Len(content) = 3
    /\ \/ (error = "IndexError" /\ \E i \in 1..3 : Len(content[i]) = 3)
       \/ (error = "ValueError" /\ \E i \in 1..3 : content[i] = RowBadBalance)

\* Whether the matching names of the folder have pairwise distinct times.
DistinctTimes ==
    \A a, b \in {n \in DOMAIN downloads : GlobMatch(n)} :
        downloads[a] = downloads[b] => a = b

\* C4: when the matching files have pairwise distinct creation times, the
\* path chosen is the matching one with the largest creation time, in
\* whatever order glob yielded the names.
C4_NewestSelected ==
    (latest_file # "" /\ latest_file \in DOMAIN downloads /\ DistinctTimes) =>
        /\ GlobMatch(latest_file)
        /\ \A n \in DOMAIN downloads :
               (GlobMatch(n) /\ n # latest_file) => downloads[n] < downloads[latest_file]

\* C4 witness: three exports with times T1 < T2 < T3; the newest is the one
\* whose name sorts first, and it is the one chosen.
C4_Witness ==
    /\ pc = "check"
    /\ FileNames \subseteq DOMAIN downloads
    /\ downloads["eksport (1).csv"] = 3
    /\ downloads["eksport (2).csv"] = 1
    /\ downloads["eksport.csv"] = 2
    /\ latest_file = "eksport (1).csv"

\* Whether the file was read and every row of it parsed.
ParsedWholeFile ==
    /\ pc \notin {"glob", "max", "check", "open", "exited"}
    /\ error # "FileNotFoundError"
    /\ transactions = content
    /\ \A i \in 1..Len(content) : Len(content[i]) >= 4 /\ ~RowUnparsable(content[i])

\* C5: for a file whose rows all parse, the four lists have one entry per
\* row, and the i-th entry of each list is taken from the i-th row.
C5_ListsAligned ==
    \/ /\ Len(dates) = Len(content) /\ Len(descriptions) = Len(content)
       /\ Len(amounts) = Len(content) /\ Len(balances) = Len(content)
       /\ \A i \in 1..Len(content) :
              /\ dates[i] = ParseDate(content[i][1])
              /\ descriptions[i] = content[i][2]
              /\ amounts[i] = PyFloat(StrReplace(StrReplace(content[i][3], ".", <<>>), ",", <<".">>))
              /\ balances[i] = PyFloat(StrReplace(StrReplace(content[i][4], ".", <<>>), ",", <<".">>))
    \/ ~ParsedWholeFile

\* C5 witness: a file of three different rows has been parsed.
C5_Witness ==
    /\ ParsedWholeFile
    /\ content = <<RowRent, RowEx1, RowNoCurrency>>
    /\ dates[1].d = 2 /\ dates[2].d = 5 /\ dates[3].d = 7
    /\ descriptions = <<RowRent[2], RowEx1[2], RowNoCurrency[2]>>

\* C6: each of the three annotations carries the description of a selected
\* transaction and points at that transaction's own (date, balance), with
\* its text ten above, also when several rows have the same amount.
C6_AnnotationOnOwnPoint ==
    (pc \in {"maximize", "show", "save", "done"}) =>
        /\ Len(annotations) = DefaultCount
        /\ \A k \in 1..Len(annotations) :
               LET r == largest_transactions[k].row IN
               /\ annotations[k].text = descriptions[r]
               /\ annotations[k].xy = <<dates[r], balances[r]>>
               /\ annotations[k].xytext = <<dates[r], AddInt(balances[r], 10)>>

\* C7: a well-formed European number in the amount column or in the balance
\* column parses to the number it denotes; "1.234,56" gives 1234.56 and
\* "0,50" gives 0.5.
C7_EuropeanNumberParsed ==
    (numRet.state # "pending") =>
        /\ WellFormedEuropean(numArg[3]) =>
               (numRet.amount.ok /\ numRet.amount = EuropeanValue(numArg[3]))
        /\ WellFormedEuropean(numArg[4]) =>
               (numRet.balance.ok /\ numRet.balance = EuropeanValue(numArg[4]))
        /\ numArg[3] = <<"1", ".", "2", "3", "4", ",", "5", "6">> =>
               numRet.amount = [ok |-> TRUE, m |-> 123456, e |-> 2]
        /\ numArg[4] = <<"1", ".", "2", "3", "4", ",", "5", "6">> =>
               numRet.balance = [ok |-> TRUE, m |-> 123456, e |-> 2]
        /\ numArg[3] = <<"0", ",", "5", "0">> =>
               numRet.amount = [ok |-> TRUE, m |-> 5, e |-> 1]
        /\ numArg[4] = <<"0", ",", "5", "0">> =>
               numRet.balance = [ok |-> TRUE, m |-> 5, e |-> 1]

\* C7 witness: "1.234,56" in the balance column has been parsed to 1234.56.
C7_Witness ==
    /\ numRet.state = "parsed"
    /\ numArg[4] = <<"1", ".", "2", "3", "4", ",", "5", "6">>
    /\ numRet.balance = [ok |-> TRUE, m |-> 123456, e |-> 2]

\* C8 as stated: the example file (balances 100, 99, 98 on three
\* consecutive days, newest first) gives a trend line of negative slope.
C8_ExampleSlopeNegative ==
    (content = ExampleFile /\ Len(lines) = 2) => (trend.den > 0 /\ trend.num < 0)

\* C8 as amended: the example file gives a trend line of positive slope,
\* one unit of balance per day.
C8_ExampleSlopePositive ==
    (content = ExampleFile /\ Len(lines) = 2) =>
        /\ trend.den > 0
        /\ trend.num > 0
        /\ trend.num = trend.den * Pow10(trend.scale)

\* C8 witness: the example file has been fitted and the run is over.
C8_Witness ==
    /\ content = ExampleFile
    /\ pc = "done"
    /\ lines = <<"b-", "r--">>
    /\ trend.den > 0

\* C9 as stated: among equal amounts the earlier row is the one selected,
\* and the earlier row comes first in the returned list.
C9_TiesByInputOrder ==
    (selRet.state = "returned" /\ selArgs.n \in 1..Len(selArgs.amounts)) =>
        /\ \A r \in RowsOf(selRet.value) :
               \A q \in (1..Len(selArgs.amounts)) \ RowsOf(selRet.value) :
                   selArgs.amounts[q] = selArgs.amounts[r] => r < q
        /\ \A k, l \in 1..Len(selRet.value) :
               (k < l /\ selRet.value[k].amount = selRet.value[l].amount)
               => selRet.value[k].row < selRet.value[l].row

\* C9 as amended: equal amounts come out in the order their rows have in
\* the tail of the partition, which need not be the order of the input.
C9_TiesByPartitionOrder ==
    (selRet.state = "returned") =>
        \A k, l \in 1..Len(selRet.value) :
            (k < l /\ selRet.value[k].amount = selRet.value[l].amount)
            => PositionIn(selRet.indices, selRet.value[k].row)
                 < PositionIn(selRet.indices, selRet.value[l].row)

\* C9 witness: two equal amounts were returned, the later row first, and a
\* third equal one, earlier than both, was left out.
C9_Witness ==
    /\ selRet.state = "returned"
    /\ Len(selRet.value) = 2
    /\ selRet.value[1].amount = selRet.value[2].amount
    /\ selRet.value[1].row > selRet.value[2].row
    /\ \E q \in 1..Len(selArgs.amounts) :
           /\ q < selRet.value[2].row
           /\ selArgs.amounts[q] = selRet.value[1].amount

\* C10: a file whose rows all parse but which has fewer rows than the count
\* asked for (three) never gets to the annotations, the display or the
\* save: the run is still before them or has ended in an unhandled error;
\* and whenever the selector has returned, it returned three transactions.
C10_ShortFileFails ==
    /\ (Len(content) < DefaultCount /\ ParsedWholeFile) =>
           /\ pc \in {"plot", "fit", "select", "crashed"}
           /\ (pc = "crashed" => error \in {"TypeError", "ValueError"} /\ exitcode = 1)
           /\ largest_transactions = <<>> /\ annotations = <<>>
           /\ ~displayed /\ ~saved
    /\ (pc \in {"annotate", "maximize", "show", "save", "done"}) =>
           Len(largest_transactions) = DefaultCount

\* C10 witness: a file of two good rows ended in the selector's ValueError,
\* after the trend line was drawn.
C10_Witness ==
    /\ ParsedWholeFile
    /\ Len(content) = 2
    /\ pc = "crashed" /\ error = "ValueError"
    /\ lines = <<"b-", "r--">>
    /\ ~displayed /\ ~saved

=============================================================================
